---- MODULE Spec2Model ----
(***************************************************************************)
(* interpelbot.py: polls the Sejm API for the interpellations and written  *)
(* questions of the configured MPs, compares the fetched list with the     *)
(* list stored by the previous run, and posts one Mattermost message per   *)
(* interpellation whose number of replies grew.                            *)
(*                                                                         *)
(* Representation.                                                         *)
(*  - A date string is a natural number: 0 is the absent date (None or     *)
(*    ''), 1..MaxDate are ISO timestamps of one format, whose string       *)
(*    order (the order min() and < use in the code) is the numeric order.  *)
(*  - A comma separated 'from' string and a space separated                *)
(*    'mattermost_users' string are the sequences of their tokens; the     *)
(*    empty string is the empty sequence.                                  *)
(*  - The dictionary key f"{id}_{type}" is the pair <<id, type>>: the type *)
(*    is "INT" or "ZAP" and holds no underscore, so the string determines  *)
(*    the pair.                                                            *)
(*  - A snapshot holds at most one item per (id, type): the API lists      *)
(*    every interpellation of a type once.                                 *)
(***************************************************************************)
EXTENDS Naturals, Integers, Sequences, FiniteSets, TLC

VARIABLES
    pc,               \* position of the program
    config,           \* what load_config returns
    store,            \* the data file interpel_<mp_id>.json of every MP
    mp_index,         \* main: position of "for mp_config in mps"
    previous_results, \* process_single_mp: what load_previous_results returned
    interpellations,  \* process_single_mp: what the fetch returned
    new_answers,      \* what compare_and_notify_new_answers returned
    name_calls,       \* the ids fetch_mp_data was called with, in order
    date_calls,       \* the keys the submission date lookup was called with
    api_dates,        \* the answers of the submission date lookup
    all_new_answers,  \* main: the aggregated list
    unique_answers_list, \* send_consolidated_notification: after de-duplication
    send_index,       \* send_consolidated_notification: position of the send loop
    deliveries,       \* the calls of send_mattermost_notification, in order
    processed,        \* main: the process_single_mp calls of this run, in order
    api_response,     \* what the API answered to the list requests of the MP
    events,           \* main: the calls of this run, in the order they were made
    suppressed,       \* observer: replies a first run stored without a report
    previous_run,     \* observer: what the run before returned and delivered
    run               \* number of the run of main

vars == <<pc, config, store, mp_index, previous_results, interpellations,
          new_answers, name_calls, date_calls, api_dates, all_new_answers,
          unique_answers_list, send_index, deliveries, processed,
          api_response, events, suppressed, previous_run, run>>

\* ------------------------------------------------------------- bounds
MaxDate == 2
MaxReplies == 2
MaxItems == 2
MaxReplyData == 3
MaxTimingReplies == 2
MaxAnswers == 3
MaxRunReplies == 1
MaxRuns == 3
MaxMalformed == 1
MaxObservedRuns == 2

\* ------------------------------------------------------------- values
NoDate == 0
Dates == 0..MaxDate
Types == {"INT", "ZAP"}
\* str(item.get('num', "")): "" is the id of an item without a number
Ids == {"", "1"}
Authors == {"", "Ministry X", "Ministry Y"}
MpIds == {"p1", "p2"}
Users == {"@a", "@b", "@c"}

\* ------------------------------------------------------------ helpers
RECURSIVE DedupFrom(_, _)
DedupFrom(s, acc) ==
    IF s = <<>> THEN acc
    ELSE DedupFrom(Tail(s),
                   IF \E k \in 1..Len(acc) : acc[k] = Head(s)
                   THEN acc ELSE Append(acc, Head(s)))

\* "if x not in unique: unique.append(x)" and list(dict.fromkeys(xs))
Dedup(s) == DedupFrom(s, <<>>)

Range(s) == {s[k] : k \in 1..Len(s)}

MinOf(S) == CHOOSE x \in S : \A y \in S : x <= y

MaxOf(S) == CHOOSE x \in S : \A y \in S : y <= x

RECURSIVE Flatten(_)
Flatten(ss) == IF ss = <<>> THEN <<>> ELSE Head(ss) \o Flatten(Tail(ss))

Key(item) == <<item.id, item.type>>

\* ------------------------------------- get_mattermost_users_for_interpellation
ConfigUsers(from_field, mps) ==
    Flatten([k \in 1..Len(mps) |->
        IF mps[k].id # "" /\ mps[k].id \in Range(from_field)
        THEN mps[k].mattermost_users ELSE <<>>])

get_mattermost_users_for_interpellation(from_field, cfg) ==
    IF from_field = <<>> \/ ~cfg.loaded THEN <<>>
    ELSE Dedup(ConfigUsers(from_field, cfg.mps))

\* ------------------------------------------------ convert_mp_ids_to_names
\* The ids fetch_mp_data is called with, in call order: one call per element
\* of the split 'from' field.
convert_mp_ids_to_names_calls(from_field) ==
    IF from_field = <<>> THEN <<>> ELSE from_field

\* ------------------------------------------- get_interpellation_timing_info
ReceiptDates(replies_data) ==
    {replies_data[k].receiptDate : k \in 1..Len(replies_data)} \ {NoDate}

LastModifieds(replies_data) ==
    {replies_data[k].lastModified : k \in 1..Len(replies_data)} \ {NoDate}

\* Faulty variant: keeps the later date (the comparison reversed).
LatestLastModified(replies_data) ==
    IF LastModifieds(replies_data) = {} THEN NoDate
    ELSE MaxOf(LastModifieds(replies_data))

\* The loop "if last_modified and (first is None or last_modified < first)"
EarliestLastModified(replies_data) ==
    IF LastModifieds(replies_data) = {} THEN NoDate
    ELSE MinOf(LastModifieds(replies_data))

\* Returns (submission_date, first_response_date)
get_interpellation_timing_info(replies_data) ==
    IF replies_data = <<>> THEN <<NoDate, NoDate>>
    ELSE IF ReceiptDates(replies_data) = {} THEN <<NoDate, NoDate>>
    ELSE <<MinOf(ReceiptDates(replies_data)), EarliestLastModified(replies_data)>>

\* ------------------------------------------ compare_and_notify_new_answers
\* previous_dict: the last item of previous with the key, as a
\* sequence of zero or one item; items with an empty id are not entered.
previous_dict_get(previous, key) ==
    LET idx == {k \in 1..Len(previous) :
                   previous[k].id # "" /\ Key(previous[k]) = key}
    IN IF idx = {} THEN <<>> ELSE <<previous[MaxOf(idx)]>>

\* Faulty variant: >= for >.
HasNewRepliesOrEqual(current_replies, previous_replies) ==
    current_replies >= previous_replies

HasNewReplies(current_replies, previous_replies) ==
    current_replies > previous_replies

\* Faulty variant: the slice starts one reply early.
new_replies_one_early(current_replies_data, previous_replies) ==
    IF Len(current_replies_data) > previous_replies
    THEN SubSeq(current_replies_data,
                IF previous_replies = 0 THEN 1 ELSE previous_replies,
                Len(current_replies_data))
    ELSE <<>>

\* current_replies_data[previous_replies:] if len(...) > previous_replies else []
new_replies(current_replies_data, previous_replies) ==
    IF Len(current_replies_data) > previous_replies
    THEN SubSeq(current_replies_data, previous_replies + 1, Len(current_replies_data))
    ELSE <<>>

\* "if author and author not in new_reply_authors: append"
new_reply_authors(replies) ==
    Dedup(SelectSeq([k \in 1..Len(replies) |-> replies[k].author],
                    LAMBDA a : a # ""))

has_non_prolongation_reply(current_replies_data) ==
    \E k \in 1..Len(current_replies_data) :
        current_replies_data[k].prolongation # TRUE

\* Faulty variant: looks at the newest reply only.
has_prolongation_of_newest(current_replies_data) ==
    IF Len(current_replies_data) > 0
    THEN current_replies_data[Len(current_replies_data)].prolongation = TRUE
    ELSE FALSE

\* matched branch, lines 344-369
has_prolongation(current_replies_data) ==
    IF Len(current_replies_data) > 0
    THEN ~has_non_prolongation_reply(current_replies_data)
            /\ Len(current_replies_data) > 0
    ELSE FALSE

\* new-interpellation branch, lines 425-441
has_prolongation_new(current_replies_data) ==
    ~(\E k \in 1..Len(current_replies_data) :
          current_replies_data[k].prolongation # TRUE)
    /\ Len(current_replies_data) > 0

reply_authors_new(current_replies_data) ==
    Dedup(SelectSeq([k \in 1..Len(current_replies_data) |->
                        current_replies_data[k].author],
                    LAMBDA a : a # ""))

\* Faulty variant: the detail lookup is made for every changed item.
NeedsDateLookupAlways(item) == TRUE

\* The detail lookup is made only when the item carries no submission date.
NeedsDateLookup(item) == item.submission_date = NoDate

\* Lines 378-400 (and 450-472): <<submission_date, first_response_date>>.
\* api_date is what get_interpellation_submission_date_from_api returns for
\* this item (NoDate for None).
Timing(item, api_date) ==
    LET sd == IF NeedsDateLookup(item) THEN api_date ELSE item.submission_date
    IN IF sd = NoDate
       THEN get_interpellation_timing_info(item.replies_data)
       ELSE <<sd, EarliestLastModified(item.replies_data)>>

ChangeRecord(item, previous_replies, prolongation, authors, cfg, api_date) ==
    [id |-> item.id,
     type |-> item.type,
     from |-> convert_mp_ids_to_names_calls(item.from),
     previous_replies |-> previous_replies,
     current_replies |-> item.replies,
     new_count |-> item.replies - previous_replies,
     has_prolongation |-> prolongation,
     reply_authors |-> authors,
     mattermost_users |-> get_mattermost_users_for_interpellation(item.from, cfg),
     submission_date |-> Timing(item, api_date)[1],
     first_response_date |-> Timing(item, api_date)[2]]

\* One iteration of "for current_item in current_results": the records it
\* appends to new_answers (none or one).
CompareItem(item, previous, cfg, api_date) ==
    IF item.id = "" THEN <<>>
    ELSE LET prev == previous_dict_get(previous, Key(item))
         IN IF prev # <<>>
            THEN IF HasNewReplies(item.replies, prev[1].replies)
                 THEN <<ChangeRecord(item, prev[1].replies,
                            has_prolongation(item.replies_data),
                            new_reply_authors(new_replies(item.replies_data,
                                                          prev[1].replies)),
                            cfg, api_date)>>
                 ELSE <<>>
            ELSE IF item.replies > 0
                 THEN <<ChangeRecord(item, 0,
                            has_prolongation_new(item.replies_data),
                            reply_authors_new(item.replies_data),
                            cfg, api_date)>>
                 ELSE <<>>

\* Faulty variant: no first-run return.
FirstRunNever(previous) == FALSE

\* "if not previous_results: return []"
FirstRun(previous) == previous = <<>>

\* dates[k] is the detail lookup's answer for current_results[k]
compare_and_notify_new_answers(current_results, previous, cfg, dates) ==
    IF FirstRun(previous) THEN <<>>
    ELSE Flatten([k \in 1..Len(current_results) |->
            CompareItem(current_results[k], previous, cfg, dates[k])])

\* Faulty variant: the names of every item are resolved, changed or not.
CompareNameCallsOfEveryItem(current_results, previous, cfg, dates) ==
    IF FirstRun(previous) THEN <<>>
    ELSE Flatten([k \in 1..Len(current_results) |->
            convert_mp_ids_to_names_calls(current_results[k].from)])

\* The fetch_mp_data calls of one comparison, in call order.
CompareNameCalls(current_results, previous, cfg, dates) ==
    IF FirstRun(previous) THEN <<>>
    ELSE Flatten([k \in 1..Len(current_results) |->
            IF CompareItem(current_results[k], previous, cfg,
                           dates[k]) = <<>>
            THEN <<>>
            ELSE convert_mp_ids_to_names_calls(current_results[k].from)])

\* The get_interpellation_submission_date_from_api calls of one comparison.
CompareDateCalls(current_results, previous, cfg, dates) ==
    IF FirstRun(previous) THEN <<>>
    ELSE Flatten([k \in 1..Len(current_results) |->
            IF CompareItem(current_results[k], previous, cfg,
                           dates[k]) # <<>>
               /\ NeedsDateLookup(current_results[k])
            THEN <<Key(current_results[k])>>
            ELSE <<>>])


\* ---------------------------------------------------- the data files
MissingFile == [file |-> "missing", data |-> <<>>]

\* A file json.load fails on, such as one a failed write left truncated.
UnreadableFile == [file |-> "unreadable", data |-> <<>>]

JsonFile(results) == [file |-> "json", data |-> results]

load_previous_results(f) == IF f.file = "json" THEN f.data ELSE <<>>

\* Faulty variant: the data file is rewritten only when nothing changed, so
\* that changes are found again until they were delivered.
save_results_unless_changes(f, results, outcome) ==
    IF outcome = "saved" /\ results # load_previous_results(f)
          /\ load_previous_results(f) # <<>>
    THEN f
    ELSE IF outcome = "saved" THEN JsonFile(results)
    ELSE IF outcome = "write_failed" THEN UnreadableFile
    ELSE f

\* Faulty variant: only a data file that holds a list already is rewritten.
save_results_over_a_snapshot(f, results, outcome) ==
    IF f.file # "json" \/ f.data = <<>> THEN f
    ELSE IF outcome = "saved" THEN JsonFile(results)
    ELSE IF outcome = "write_failed" THEN UnreadableFile
    ELSE f

\* Faulty variant: the fetched list is merged into the stored one.
save_results_merged(f, results, outcome) ==
    IF outcome = "saved" THEN JsonFile(load_previous_results(f) \o results)
    ELSE IF outcome = "write_failed" THEN UnreadableFile
    ELSE f

\* save_results_to_json: the file after the call. os.makedirs or open may
\* raise and leave the file as it was; json.dump may raise after open has
\* truncated the file.
save_results_to_json(f, results, outcome) ==
    IF outcome = "saved" THEN JsonFile(results)
    ELSE IF outcome = "write_failed" THEN UnreadableFile
    ELSE f

SaveOutcomes == {"saved", "open_failed", "write_failed"}

\* The data files load_previous_results returns [] for: none, one that is
\* no JSON, and one holding the empty list.
FirstRunFiles == {MissingFile, UnreadableFile, JsonFile(<<>>)}

\* A call main or process_single_mp made, at the entry 'index' of 'mps'.
Event(op, index) == [op |-> op, index |-> index]

NoRun == [fetched |-> {}, changes |-> {}, deliveries |-> {}]

NoResponse == [status |-> "none", int_data |-> <<>>, zap_data |-> <<>>]

\* ================================================================ inputs
Reply(prolongation, author, lastModified, receiptDate) ==
    [prolongation |-> prolongation, author |-> author,
     lastModified |-> lastModified, receiptDate |-> receiptDate]

\* What process_api_item returns (title and url left out).
Item(id, type, from_field, replies, replies_data, submission_date) ==
    [id |-> id, type |-> type, from |-> from_field, replies |-> replies,
     replies_data |-> replies_data, submission_date |-> submission_date]

MpConfig(id, users) == [id |-> id, mattermost_users |-> users]

\* webhook: whether get_mattermost_webhook_url finds a URL, in the
\* configuration or in the environment.
NoConfig == [loaded |-> FALSE, webhook |-> FALSE, mps |-> <<>>]

TwoMps ==
    [loaded |-> TRUE,
     webhook |-> TRUE,
     mps |-> <<MpConfig("p1", <<"@a", "@b">>), MpConfig("p2", <<"@b", "@c">>)>>]

\* fetch_interpellations_from_api appends the INT items, then the ZAP items.
KeyOrder == << <<"", "INT">>, <<"1", "INT">>, <<"", "ZAP">>, <<"1", "ZAP">> >>

PlainReply == Reply(FALSE, "Ministry X", 1, 1)

FromOf(key) == IF key[2] = "INT" THEN <<"p1">> ELSE <<"p1", "p2">>

PlainItem(key, n) ==
    Item(key[1], key[2], FromOf(key), n, [k \in 1..n |-> PlainReply], 1)

NthOf(K, i) == CHOOSE k \in K : Cardinality({j \in K : j < k}) = i - 1

\* The items of the keys K (positions of KeyOrder), in API order, with the
\* reply counts c.
SnapshotOf(K, c) ==
    [i \in 1..Cardinality(K) |-> PlainItem(KeyOrder[NthOf(K, i)], c[NthOf(K, i)])]

PlainSnapshots ==
    UNION {{SnapshotOf(K, c) : c \in [K -> 0..MaxReplies]} :
           K \in {K \in SUBSET (1..Len(KeyOrder)) : Cardinality(K) <= MaxItems}}

\* One interpellation with every list of replies (prolongation and author),
\* and "extra" replies of the API that are no JSON objects: they count in
\* 'replies' and are not in 'replies_data'.
ReplyLists ==
    UNION {[1..n -> {Reply(p, a, 1, 1) : p \in BOOLEAN, a \in Authors}] :
           n \in 0..MaxReplyData}

ReplyItems ==
    {Item("1", "INT", <<"p1">>, Len(d) + extra, d, 1) :
        d \in ReplyLists, extra \in 0..1}

\* One interpellation with every list of reply dates.
TimingLists ==
    UNION {[1..n -> {Reply(FALSE, "Ministry X", lm, rd) : lm \in Dates, rd \in Dates}] :
           n \in 0..MaxTimingReplies}

TimingItems ==
    {Item("1", "INT", <<"p1">>, IF d = <<>> THEN 1 ELSE Len(d), d, sd) :
        d \in TimingLists, sd \in Dates}

\* The stored list of the previous run: the same interpellation with some
\* reply count, or only another interpellation.
PreviousOfOne(counts) ==
    {<<PlainItem(<<"1", "INT">>, n)>> : n \in counts}
        \cup {<<PlainItem(<<"1", "ZAP">>, 1)>>}

\* The answers the submission date lookup can give during one comparison:
\* an answer (NoDate for None or a failed request) for every item the code
\* asks about.
Changed(item, previous) == CompareItem(item, previous, TwoMps, NoDate) # <<>>

LookupAnswers(current, previous) ==
    {f \in [1..Len(current) -> Dates] :
        \A k \in 1..Len(current) :
            ~(~FirstRun(previous) /\ Changed(current[k], previous)
                /\ NeedsDateLookup(current[k])) => f[k] = NoDate}

\* ============================================ compare_and_notify_new_answers
InitIdle ==
    /\ config = TwoMps
    /\ store = [p \in MpIds |-> MissingFile]
    /\ mp_index = 0
    /\ new_answers = <<>>
    /\ name_calls = <<>>
    /\ date_calls = <<>>
    /\ api_dates = <<>>
    /\ all_new_answers = <<>>
    /\ unique_answers_list = <<>>
    /\ send_index = 0
    /\ deliveries = <<>>
    /\ processed = <<>>
    /\ api_response = NoResponse
    /\ events = <<>>
    /\ suppressed = {}
    /\ previous_run = NoRun
    /\ run = 0

InitCompare ==
    /\ pc = "compare_call"
    /\ interpellations \in PlainSnapshots
    /\ previous_results \in PlainSnapshots
    /\ InitIdle

InitReplies ==
    /\ pc = "compare_call"
    /\ interpellations \in {<<i>> : i \in ReplyItems}
    /\ previous_results \in PreviousOfOne(0..(MaxReplyData + 1))
    /\ InitIdle

InitTiming ==
    /\ pc = "compare_call"
    /\ interpellations \in {<<i>> : i \in TimingItems}
    /\ previous_results \in PreviousOfOne({0})
    /\ InitIdle

\* One call compare_and_notify_new_answers(interpellations, previous_results)
CompareCall ==
    /\ pc = "compare_call"
    /\ \E answers \in LookupAnswers(interpellations, previous_results) :
          /\ api_dates' = answers
          /\ new_answers' = compare_and_notify_new_answers(
                                interpellations, previous_results, config, answers)
          /\ name_calls' = CompareNameCalls(
                                interpellations, previous_results, config, answers)
          /\ date_calls' = CompareDateCalls(
                                interpellations, previous_results, config, answers)
    /\ pc' = "compare_return"
    /\ UNCHANGED <<config, store, mp_index, previous_results, interpellations,
                   all_new_answers, unique_answers_list, send_index,
                   deliveries, processed, run, api_response, events,
                   suppressed, previous_run>>

SpecCompare == InitCompare /\ [][CompareCall]_vars

SpecReplies == InitReplies /\ [][CompareCall]_vars

SpecTiming == InitTiming /\ [][CompareCall]_vars


\* ============================================ send_consolidated_notification
IndexOfKey(answers, key) ==
    CHOOSE k \in 1..Len(answers) : Key(answers[k]) = key

\* Lines 208-214: the users of the kept record after a later record with
\* the same key.
MergeUsers(existing_users, new_users) ==
    IF existing_users # <<>> /\ new_users # <<>>
    THEN Dedup(existing_users \o new_users)
    ELSE existing_users

\* key = f"{answer['id']}_{answer['type']}"
SameAnswer(a, b) == Key(a) = Key(b)

\* One iteration of "for answer in all_new_answers" on the dictionary
\* unique_answers, kept as the list of its values in insertion order.
AddAnswer(unique_answers, answer) ==
    IF \E k \in 1..Len(unique_answers) : SameAnswer(unique_answers[k], answer)
    THEN LET k == CHOOSE j \in 1..Len(unique_answers) :
                      SameAnswer(unique_answers[j], answer)
         IN [unique_answers EXCEPT ![k].mattermost_users =
                MergeUsers(unique_answers[k].mattermost_users,
                           answer.mattermost_users)]
    ELSE Append(unique_answers, answer)

RECURSIVE UniqueAnswers(_, _)
UniqueAnswers(answers, unique_answers) ==
    IF answers = <<>> THEN unique_answers
    ELSE UniqueAnswers(Tail(answers), AddAnswer(unique_answers, Head(answers)))

\* send_mattermost_notification: what one call can come to.
SendOutcomes(cfg) ==
    IF cfg.webhook THEN {"sent", "failed"} ELSE {"no_webhook"}

\* Faulty variant: the error of a failed request leaves the loop.
AfterSendAbortOnFailure(outcome, index, n) ==
    IF outcome = "failed" \/ index >= n THEN "done" ELSE "send"

\* The request's exception is caught at lines 191-193: the loop of line 222
\* goes on to the next answer whatever the outcome.
AfterSend(outcome, index, n) ==
    IF index >= n THEN "done" ELSE "send"

\* main, lines 754-755, and send_consolidated_notification up to line 219
Notify ==
    /\ pc = "notify"
    /\ IF all_new_answers = <<>>
       THEN /\ pc' = "done"
            /\ UNCHANGED <<unique_answers_list, send_index, events>>
       ELSE /\ unique_answers_list' = UniqueAnswers(all_new_answers, <<>>)
            /\ events' = Append(events, Event("notify", mp_index))
            /\ send_index' = 1
            /\ pc' = "send"
    /\ UNCHANGED <<config, store, mp_index, previous_results, interpellations,
                   new_answers, name_calls, date_calls, api_dates,
                   all_new_answers, deliveries, processed, run, api_response,
                   suppressed, previous_run>>

\* One iteration of the loop of lines 222-277
Send ==
    /\ pc = "send"
    /\ send_index <= Len(unique_answers_list)
    /\ \E outcome \in SendOutcomes(config) :
          /\ deliveries' = Append(deliveries,
                [id |-> unique_answers_list[send_index].id,
                 type |-> unique_answers_list[send_index].type,
                 mattermost_users |-> unique_answers_list[send_index].mattermost_users,
                 outcome |-> outcome])
          /\ pc' = AfterSend(outcome, send_index, Len(unique_answers_list))
    /\ send_index' = send_index + 1
    /\ events' = Append(events, Event("send", mp_index))
    /\ UNCHANGED <<config, store, mp_index, previous_results, interpellations,
                   new_answers, name_calls, date_calls, api_dates,
                   all_new_answers, unique_answers_list, processed, run,
                   api_response, suppressed, previous_run>>

\* The 'from' fields of the API: the submitters in either order, one of
\* them, or none.
FromFields == {<<>>, <<"p1">>, <<"p2">>, <<"p1", "p2">>, <<"p2", "p1">>}

\* Configurations of two MPs: "p1" with or without Mattermost users, the
\* webhook URL present or not.
NotifyConfigs ==
    {[loaded |-> TRUE,
      webhook |-> w,
      mps |-> <<MpConfig("p1", u), MpConfig("p2", <<"@b", "@c">>)>>] :
        w \in BOOLEAN, u \in {<<>>, <<"@a", "@b">>}}

\* The Change Records of one new reply to interpellation 1 or written
\* question 1, as compare_and_notify_new_answers builds them under cfg.
AnswerRecords(cfg) ==
    {ChangeRecord(Item("1", t, f, 1, <<PlainReply>>, 1), 0, FALSE,
                  <<"Ministry X">>, cfg, NoDate) :
        t \in Types, f \in FromFields}

InitNotify ==
    /\ pc = "notify"
    /\ config \in NotifyConfigs
    /\ all_new_answers \in UNION {[1..n -> AnswerRecords(config)] : n \in 0..MaxAnswers}
    /\ store = [p \in MpIds |-> MissingFile]
    /\ mp_index = 0
    /\ previous_results = <<>>
    /\ interpellations = <<>>
    /\ new_answers = <<>>
    /\ name_calls = <<>>
    /\ date_calls = <<>>
    /\ api_dates = <<>>
    /\ unique_answers_list = <<>>
    /\ send_index = 0
    /\ deliveries = <<>>
    /\ processed = <<>>
    /\ api_response = NoResponse
    /\ events = <<>>
    /\ suppressed = {}
    /\ previous_run = NoRun
    /\ run = 0

SpecNotify == InitNotify /\ [][Notify \/ Send]_vars

\* ===================================================================== main
\* The configuration file: unreadable, without MPs, or two MPs around an
\* entry that has no id.
RunConfigs ==
    {NoConfig,
     [loaded |-> TRUE, webhook |-> TRUE, mps |-> <<>>],
     [loaded |-> TRUE,
      webhook |-> TRUE,
      mps |-> <<MpConfig("p1", <<"@a", "@b">>), MpConfig("", <<"@a">>),
                MpConfig("p2", <<"@b", "@c">>)>>]}

\* Interpellation 1 and written question 1, both submitted by "p1" and "p2".
RunItem(key, n) ==
    Item(key[1], key[2], <<"p1", "p2">>, n, [k \in 1..n |-> PlainReply], 1)

RunSnapshotOf(K, c) ==
    [i \in 1..Cardinality(K) |-> RunItem(KeyOrder[NthOf(K, i)], c[NthOf(K, i)])]

\* An element of the JSON list of the API: an object with 'num' and a list
\* of n replies, or something that is no object (a string, null), on which
\* item.get raises.
RawItem(num, n) == [kind |-> "dict", num |-> num, replies |-> n]

NotAnObject == [kind |-> "other", num |-> "", replies |-> 0]

\* process_api_item: the processed item, or nothing (None) when the body
\* raised (lines 711-713).
process_api_item(raw, item_type) ==
    IF raw.kind # "dict" THEN <<>>
    ELSE <<RunItem(<<raw.num, item_type>>, raw.replies)>>

\* Lines 628-632 and 642-646: the loop over one list.
ProcessItems(data, item_type) ==
    Flatten([k \in 1..Len(data) |-> process_api_item(data[k], item_type)])

\* Faulty variant: the exception of one item is not caught per item and
\* ends the whole fetch in the outer handler.
fetch_interpellations_from_api_all_or_nothing(response) ==
    IF response.status # "ok" THEN <<>>
    ELSE IF \E k \in 1..Len(response.int_data) : response.int_data[k].kind # "dict"
    THEN <<>>
    ELSE IF \E k \in 1..Len(response.zap_data) : response.zap_data[k].kind # "dict"
    THEN <<>>
    ELSE ProcessItems(response.int_data, "INT")
            \o ProcessItems(response.zap_data, "ZAP")

\* Faulty variant: when the second request fails, the interpellations of
\* the first are returned.
fetch_interpellations_from_api_partial(response) ==
    IF response.status = "int_failed" THEN <<>>
    ELSE ProcessItems(response.int_data, "INT")
            \o ProcessItems(response.zap_data, "ZAP")

\* fetch_interpellations_from_api: [] when a request failed (lines 651-659),
\* else the processed interpellations followed by the written questions.
fetch_interpellations_from_api(response) ==
    IF response.status # "ok" THEN <<>>
    ELSE ProcessItems(response.int_data, "INT")
            \o ProcessItems(response.zap_data, "ZAP")

\* The lists of the API about inquiry 1: at most one object, and at most
\* bad elements that are no objects, in any order.
RawLists(bad) ==
    {d \in UNION {[1..n -> {RawItem("1", c) : c \in 0..MaxRunReplies}
                              \cup {NotAnObject}] : n \in 0..(bad + 1)} :
        /\ Cardinality({k \in 1..Len(d) : d[k].kind = "dict"}) <= 1
        /\ Cardinality({k \in 1..Len(d) : d[k].kind # "dict"}) <= bad}

\* The answers to the two list requests: both lists; or the first request
\* failed; or the second failed after the first list was processed.
ApiResponses(bad) ==
    {[status |-> "ok", int_data |-> i, zap_data |-> z] :
        i \in RawLists(bad), z \in RawLists(bad)}
    \cup {[status |-> "int_failed", int_data |-> <<>>, zap_data |-> <<>>]}
    \cup {[status |-> "zap_failed", int_data |-> i, zap_data |-> <<>>] :
        i \in RawLists(bad)}

\* What fetch_interpellations_from_api can return for an MP: any of the
\* two, with any reply counts; the empty list also when a request failed.
FetchResults == {fetch_interpellations_from_api(r) : r \in ApiResponses(0)}

NoLookups(current) == [k \in 1..Len(current) |-> NoDate]

CurrentMp == config.mps[mp_index]

\* Lines 745-751: the changes are added when process_single_mp returned.
Aggregate(all, new, outcome) ==
    IF outcome = "saved" THEN all \o new ELSE all

\* Faulty variant: an exception ends the loop over the MPs.
AfterMpStopOnFailure(outcome, index) ==
    IF outcome \in {"saved", "fetch_failed"} THEN index + 1 ELSE 1000

\* "continue" at line 751, and the end of the loop body: the next MP.
AfterMp(outcome, index) == index + 1

InitRun ==
    /\ pc = "main"
    /\ config \in RunConfigs
    /\ store \in [MpIds -> FirstRunFiles]
    /\ mp_index = 0
    /\ previous_results = <<>>
    /\ interpellations = <<>>
    /\ new_answers = <<>>
    /\ name_calls = <<>>
    /\ date_calls = <<>>
    /\ api_dates = <<>>
    /\ all_new_answers = <<>>
    /\ unique_answers_list = <<>>
    /\ send_index = 0
    /\ deliveries = <<>>
    /\ processed = <<>>
    /\ api_response = NoResponse
    /\ events = <<>>
    /\ suppressed = {}
    /\ previous_run = NoRun
    /\ run = 1

\* process_single_mp for the one MP "p1", over any stored snapshot.
InitFetch ==
    /\ pc = "mp"
    /\ config = [loaded |-> TRUE, webhook |-> TRUE,
                 mps |-> <<MpConfig("p1", <<"@a", "@b">>)>>]
    /\ store \in {[p \in MpIds |-> IF p = "p1" THEN f ELSE MissingFile] :
                    f \in {MissingFile} \cup {JsonFile(s) : s \in FetchResults}}
    /\ mp_index = 1
    /\ previous_results = <<>>
    /\ interpellations = <<>>
    /\ new_answers = <<>>
    /\ name_calls = <<>>
    /\ date_calls = <<>>
    /\ api_dates = <<>>
    /\ all_new_answers = <<>>
    /\ unique_answers_list = <<>>
    /\ send_index = 0
    /\ deliveries = <<>>
    /\ processed = <<>>
    /\ api_response = NoResponse
    /\ events = <<>>
    /\ suppressed = {}
    /\ previous_run = NoRun
    /\ run = 1

\* Faulty variant: main goes on without a configuration.
ReturnsEarlyNever(cfg) == FALSE

\* main, lines 718-730: no configuration, or no MPs in it.
ReturnsEarly(cfg) == ~cfg.loaded \/ cfg.mps = <<>>

\* Both MPs are tracked, with or without a webhook; each has no data file
\* or the snapshot of an earlier run.
InitRerun ==
    /\ pc = "main"
    /\ config \in {[loaded |-> TRUE, webhook |-> w,
                    mps |-> <<MpConfig("p1", <<"@a", "@b">>), MpConfig("", <<"@a">>),
                              MpConfig("p2", <<"@b", "@c">>)>>] : w \in BOOLEAN}
    /\ store \in [MpIds -> {MissingFile}
                     \cup {JsonFile(s) : s \in
                            {t \in FetchResults : \A k \in 1..Len(t) : t[k].type = "ZAP"}
                                \ {<<>>}}]
    /\ mp_index = 0
    /\ previous_results = <<>>
    /\ interpellations = <<>>
    /\ new_answers = <<>>
    /\ name_calls = <<>>
    /\ date_calls = <<>>
    /\ api_dates = <<>>
    /\ all_new_answers = <<>>
    /\ unique_answers_list = <<>>
    /\ send_index = 0
    /\ deliveries = <<>>
    /\ processed = <<>>
    /\ api_response = NoResponse
    /\ events = <<>>
    /\ suppressed = {}
    /\ previous_run = NoRun
    /\ run = 1

\* main, lines 717-735
Main ==
    /\ pc = "main"
    /\ IF ReturnsEarly(config)
       THEN /\ pc' = "done"
            /\ UNCHANGED <<mp_index, all_new_answers>>
       ELSE /\ pc' = "mp"
            /\ mp_index' = 1
            /\ all_new_answers' = <<>>
    /\ UNCHANGED <<config, store, previous_results, interpellations,
                   new_answers, name_calls, date_calls, api_dates,
                   unique_answers_list, send_index, deliveries, processed, run,
                   api_response, events, suppressed, previous_run>>

\* main, lines 738-743: an entry without id is skipped
SkipMp ==
    /\ pc = "mp"
    /\ mp_index <= Len(config.mps)
    /\ CurrentMp.id = ""
    /\ mp_index' = mp_index + 1
    /\ UNCHANGED <<pc, config, store, previous_results, interpellations,
                   new_answers, name_calls, date_calls, api_dates,
                   all_new_answers, unique_answers_list, send_index,
                   deliveries, processed, run, api_response, events,
                   suppressed, previous_run>>

\* process_single_mp, line 548
LoadPrevious ==
    /\ pc = "mp"
    /\ mp_index <= Len(config.mps)
    /\ CurrentMp.id # ""
    /\ previous_results' = load_previous_results(store[CurrentMp.id])
    /\ interpellations' = <<>>
    /\ new_answers' = <<>>
    /\ api_response' = NoResponse
    /\ pc' = "fetch"
    /\ UNCHANGED <<config, store, mp_index, name_calls, date_calls, api_dates,
                   all_new_answers, unique_answers_list, send_index,
                   deliveries, processed, run, events, suppressed,
                   previous_run>>

\* process_single_mp, lines 551-555: an empty list (nothing found, or a
\* request failed) ends the MP's processing with no changes
FetchStep(response) ==
    /\ pc = "fetch"
    /\ api_response' = response
    /\ events' = Append(events, Event("fetch", mp_index))
    /\ interpellations' = fetch_interpellations_from_api(response)
    /\ IF fetch_interpellations_from_api(response) = <<>>
       THEN /\ processed' = Append(processed,
                  [id |-> CurrentMp.id, outcome |-> "fetch_failed",
                   changes |-> <<>>, fetched |-> <<>>])
            /\ all_new_answers' = Aggregate(all_new_answers, <<>>, "fetch_failed")
            /\ mp_index' = AfterMp("fetch_failed", mp_index)
            /\ pc' = "mp"
       ELSE /\ pc' = "compare"
            /\ UNCHANGED <<processed, all_new_answers, mp_index>>
    /\ UNCHANGED <<config, store, previous_results, new_answers, name_calls,
                   date_calls, api_dates, unique_answers_list, send_index,
                   deliveries, run, suppressed, previous_run>>

\* In the runs of main the lists of the API hold objects only.
Fetch == \E response \in ApiResponses(0) : FetchStep(response)

\* The fetch of one MP who has submitted written questions only.
FetchWritten ==
    \E response \in {r \in ApiResponses(0) : r.int_data = <<>>} :
        FetchStep(response)

\* The fetch of one MP whose lists may hold elements that are no objects.
FetchCall == \E response \in ApiResponses(MaxMalformed) : FetchStep(response)

\* process_single_mp, line 560
Compare ==
    /\ pc = "compare"
    /\ events' = Append(events, Event("compare", mp_index))
    /\ new_answers' = compare_and_notify_new_answers(
                          interpellations, previous_results, config,
                          NoLookups(interpellations))
    /\ name_calls' = name_calls \o CompareNameCalls(
                          interpellations, previous_results, config,
                          NoLookups(interpellations))
    /\ pc' = "save"
    /\ UNCHANGED <<config, store, mp_index, previous_results, interpellations,
                   date_calls, api_dates, all_new_answers, unique_answers_list,
                   send_index, deliveries, processed, run, api_response,
                   suppressed, previous_run>>

\* The observer's record after a data file was written: an entry is kept
\* while the inquiry, where the fetched list holds it, has the count that
\* was stored; a first run adds the inquiries it stored with replies.
Observe(seen, mp_id, current, previous, outcome) ==
    IF outcome # "saved" THEN seen
    ELSE {s \in seen :
             \/ s.mp # mp_id
             \/ \A k \in 1..Len(current) :
                   Key(current[k]) = s.key => current[k].replies = s.replies}
         \cup (IF previous # <<>> THEN {}
               ELSE {[mp |-> mp_id, key |-> Key(current[k]),
                      replies |-> current[k].replies] :
                        k \in {k \in 1..Len(current) : current[k].replies > 0}})

\* process_single_mp, lines 563-565, and main, lines 746-751
Save ==
    /\ pc = "save"
    /\ events' = Append(events, Event("save", mp_index))
    /\ \E outcome \in SaveOutcomes :
          /\ suppressed' = Observe(suppressed, CurrentMp.id, interpellations,
                                   previous_results, outcome)
          /\ store' = [store EXCEPT ![CurrentMp.id] =
                          save_results_to_json(@, interpellations, outcome)]
          /\ processed' = Append(processed,
                [id |-> CurrentMp.id, outcome |-> outcome,
                 changes |-> new_answers, fetched |-> interpellations])
          /\ all_new_answers' = Aggregate(all_new_answers, new_answers, outcome)
          /\ mp_index' = AfterMp(outcome, mp_index)
    /\ pc' = "mp"
    /\ UNCHANGED <<config, previous_results, interpellations, new_answers,
                   name_calls, date_calls, api_dates, unique_answers_list,
                   send_index, deliveries, run, api_response, previous_run>>

\* Faulty variant: the loop over the MPs is left after its first entry.
LoopEndedAfterFirst(index, cfg) == index > 1

\* Line 738: the for loop has gone through every entry of 'mps'.
LoopEnded(index, cfg) == index > Len(cfg.mps)

\* main: the loop over the MPs has ended
MpsDone ==
    /\ pc = "mp"
    /\ LoopEnded(mp_index, config)
    /\ pc' = "notify"
    /\ UNCHANGED <<config, store, mp_index, previous_results, interpellations,
                   new_answers, name_calls, date_calls, api_dates,
                   all_new_answers, unique_answers_list, send_index,
                   deliveries, processed, run, api_response, events,
                   suppressed, previous_run>>

\* The observer's record of a run: the reply counts that were fetched and
\* the changes process_single_mp returned, by MP, and the deliveries with
\* the reply count that was reported.
RunRecord(calls, answers, sent) ==
    [fetched |->
        UNION {{[mp |-> calls[i].id, key |-> Key(calls[i].fetched[k]),
                 replies |-> calls[i].fetched[k].replies] :
                   k \in 1..Len(calls[i].fetched)} : i \in 1..Len(calls)},
     changes |->
        UNION {{[mp |-> calls[i].id, key |-> Key(calls[i].changes[k]),
                 replies |-> calls[i].changes[k].current_replies] :
                   k \in 1..Len(calls[i].changes)} :
               i \in {i \in 1..Len(calls) : calls[i].outcome = "saved"}},
     deliveries |->
        {[key |-> <<sent[i].id, sent[i].type>>,
          replies |-> answers[i].current_replies,
          outcome |-> sent[i].outcome] : i \in 1..Len(sent)}]

\* The next run of the program (cron): the data files are what is kept, and
\* config.json is read anew.
StartRun(cfg, record) ==
    /\ pc = "done"
    /\ run' = run + 1
    /\ pc' = "main"
    /\ mp_index' = 0
    /\ previous_results' = <<>>
    /\ interpellations' = <<>>
    /\ new_answers' = <<>>
    /\ name_calls' = <<>>
    /\ all_new_answers' = <<>>
    /\ unique_answers_list' = <<>>
    /\ send_index' = 0
    /\ deliveries' = <<>>
    /\ processed' = <<>>
    /\ api_response' = NoResponse
    /\ events' = <<>>
    /\ previous_run' = record
    /\ config' = cfg
    /\ UNCHANGED <<store, date_calls, api_dates, suppressed>>

NextRun ==
    /\ run < MaxRuns
    /\ \E cfg \in RunConfigs : StartRun(cfg, NoRun)

\* The next run under the same configuration, the observer keeping the
\* record of the run that has ended.
NextRunObserved ==
    /\ run < MaxObservedRuns
    /\ StartRun(config, RunRecord(processed, unique_answers_list, deliveries))

Next ==
    \/ Main
    \/ SkipMp
    \/ LoadPrevious
    \/ Fetch
    \/ Compare
    \/ Save
    \/ MpsDone
    \/ Notify
    \/ Send
    \/ NextRun

Spec == InitRun /\ [][Next]_vars

SpecRerun ==
    InitRerun /\ [][Main \/ SkipMp \/ LoadPrevious \/ FetchWritten \/ Compare
                        \/ Save \/ MpsDone \/ Notify \/ Send
                        \/ NextRunObserved]_vars

SpecFetch == InitFetch /\ [][LoadPrevious \/ FetchCall \/ Compare \/ Save]_vars

\* ================================================================ claims
Returned == pc = "compare_return"

RecordKeys == {Key(new_answers[k]) : k \in 1..Len(new_answers)}

Emitted(key) == key \in RecordKeys

RecordOf(key) == new_answers[CHOOSE k \in 1..Len(new_answers) : Key(new_answers[k]) = key]

InPrevious(key) == \E k \in 1..Len(previous_results) : Key(previous_results[k]) = key

\* The reply count the previous snapshot holds for the key, 0 when absent.
PreviousCount(key) ==
    IF InPrevious(key)
    THEN previous_results[CHOOSE k \in 1..Len(previous_results) :
                              Key(previous_results[k]) = key].replies
    ELSE 0

CurrentItems == {interpellations[k] : k \in 1..Len(interpellations)}

CurrentOf(key) == CHOOSE item \in CurrentItems : Key(item) = key

\* C1 as stated: a Change Record is emitted for a key of the current snapshot
\* if and only if its current reply count is greater than its previous reply
\* count, an inquiry absent from the previous snapshot counting as 0.
C1_EmittedIffCountGrew ==
    Returned =>
        \A item \in CurrentItems :
            Emitted(Key(item)) <=> item.replies > PreviousCount(Key(item))

\* C1 amended: with a non-empty previous snapshot, a Change Record is emitted
\* for a key with a non-empty id if and only if the count grew (absent counts
\* as 0); with an empty previous snapshot, or for an empty id, none is
\* emitted. Every record is the record of one current item, and there is one
\* record per key.
C1_EmittedIffCountGrewAfterFirstRun ==
    Returned =>
        /\ \A item \in CurrentItems :
              Emitted(Key(item)) <=>
                 /\ previous_results # <<>>
                 /\ item.id # ""
                 /\ item.replies > PreviousCount(Key(item))
        /\ RecordKeys \subseteq {Key(item) : item \in CurrentItems}
        /\ Cardinality(RecordKeys) = Len(new_answers)

C1_Witness ==
    /\ Returned
    /\ \E item \in CurrentItems :
          ~InPrevious(Key(item)) /\ item.replies > 0 /\ Emitted(Key(item))
    /\ \E item \in CurrentItems :
          InPrevious(Key(item)) /\ item.replies > PreviousCount(Key(item))
             /\ Emitted(Key(item))

\* C2: comparing a snapshot with itself gives no Change Record.
C2_SameSnapshotNoRecords ==
    (Returned /\ interpellations = previous_results) => new_answers = <<>>

C2_Witness ==
    /\ Returned
    /\ interpellations = previous_results
    /\ \E item \in CurrentItems : item.id # "" /\ item.replies > 0
    /\ Len(interpellations) = 2

\* C3: in every Change Record has_prolongation is true if and only if the
\* whole current reply list of the inquiry is non-empty and every reply in it
\* is a prolongation, for matched inquiries and for inquiries absent from the
\* previous snapshot.
AllProlongations(replies_data) ==
    /\ replies_data # <<>>
    /\ \A k \in 1..Len(replies_data) : replies_data[k].prolongation = TRUE

C3_ProlongationIffAllReplies ==
    Returned =>
        \A key \in RecordKeys :
            RecordOf(key).has_prolongation
                <=> AllProlongations(CurrentOf(key).replies_data)

\* A matched inquiry whose only new reply is a prolongation and whose old
\* reply is not: the flag is false.
C3_Witness ==
    /\ Returned
    /\ \E key \in RecordKeys :
          /\ InPrevious(key)
          /\ RecordOf(key).previous_replies = 1
          /\ Len(CurrentOf(key).replies_data) = 2
          /\ CurrentOf(key).replies_data[1].prolongation = FALSE
          /\ CurrentOf(key).replies_data[2].prolongation = TRUE
          /\ RecordOf(key).has_prolongation = FALSE

\* The authors of the replies at positions [lo, hi) of the list (counted
\* from 0), as far as the list goes.
AuthorsAt(replies_data, lo, hi) ==
    LET last == IF hi < Len(replies_data) THEN hi ELSE Len(replies_data)
    IN [k \in 1..(IF last > lo THEN last - lo ELSE 0) |-> replies_data[lo + k].author]

NamedOnly(authors) == SelectSeq(authors, LAMBDA a : a # "")

\* C4 as stated: reply_authors is the sequence of the authors of the replies
\* at positions [previous_count, current_count), duplicates removed, first
\* occurrence order kept.
C4_AuthorsOfNewReplies ==
    Returned =>
        \A key \in RecordKeys :
            RecordOf(key).reply_authors =
                Dedup(AuthorsAt(CurrentOf(key).replies_data,
                                RecordOf(key).previous_replies,
                                RecordOf(key).current_replies))

\* C4 amended: the same, of the replies that name an author (a reply with an
\* empty author gives no entry). Previous count 1, current count 2 and
\* second author "Ministry X" give new_count 1 and <<"Ministry X">>.
C4_NamedAuthorsOfNewReplies ==
    Returned =>
        \A key \in RecordKeys :
            /\ RecordOf(key).reply_authors =
                  Dedup(NamedOnly(AuthorsAt(CurrentOf(key).replies_data,
                                            RecordOf(key).previous_replies,
                                            RecordOf(key).current_replies)))
            /\ (Len(CurrentOf(key).replies_data) <= RecordOf(key).previous_replies
                   => RecordOf(key).reply_authors = <<>>)
            /\ (/\ InPrevious(key)
                /\ PreviousCount(key) = 1
                /\ CurrentOf(key).replies = 2
                /\ Len(CurrentOf(key).replies_data) = 2
                /\ CurrentOf(key).replies_data[2].author = "Ministry X")
                  => /\ RecordOf(key).new_count = 1
                     /\ RecordOf(key).reply_authors = <<"Ministry X">>

C4_Witness ==
    /\ Returned
    /\ \E key \in RecordKeys :
          /\ PreviousCount(key) = 1
          /\ CurrentOf(key).replies = 2
          /\ Len(CurrentOf(key).replies_data) = 2
          /\ CurrentOf(key).replies_data[1].author = "Ministry Y"
          /\ CurrentOf(key).replies_data[2].author = "Ministry X"
          /\ RecordOf(key).reply_authors = <<"Ministry X">>
          /\ RecordOf(key).has_prolongation = FALSE

\* The ids of the submitters of the inquiries that produced a Change Record.
ChangedSubmitters == UNION {Range(CurrentOf(key).from) : key \in RecordKeys}

Occurrences(s, x) == Cardinality({k \in 1..Len(s) : s[k] = x})

RECURSIVE SumOver(_, _)
SumOver(S, f) ==
    IF S = {} THEN 0
    ELSE LET x == CHOOSE y \in S : TRUE IN f[x] + SumOver(S \ {x}, f)

\* C9 as stated: fetch_mp_data is called only for submitters of inquiries
\* that produce a Change Record, and once per distinct submitter id.
C9_OneLookupPerDistinctSubmitter ==
    Returned =>
        /\ Range(name_calls) \subseteq ChangedSubmitters
        /\ \A id \in ChangedSubmitters : Occurrences(name_calls, id) = 1

\* C9 amended: fetch_mp_data is called only for submitters of inquiries that
\* produce a Change Record, and once for every submitter id of every such
\* inquiry: an id is looked up again for each changed inquiry that names it.
C9_OneLookupPerSubmitterOfEachRecord ==
    Returned =>
        /\ Range(name_calls) \subseteq ChangedSubmitters
        /\ \A id \in MpIds :
              Occurrences(name_calls, id) =
                 SumOver(RecordKeys,
                         [key \in RecordKeys |-> Occurrences(CurrentOf(key).from, id)])

\* Two changed inquiries name "p1": it is looked up twice.
C9_Witness ==
    /\ Returned
    /\ Len(new_answers) = 2
    /\ name_calls = <<"p1", "p1", "p2">>

\* The earliest lastModified of the replies that carry one, NoDate if none.
MinLastModified(replies_data) ==
    LET ds == {replies_data[k].lastModified : k \in 1..Len(replies_data)} \ {NoDate}
    IN IF ds = {} THEN NoDate ELSE CHOOSE d \in ds : \A e \in ds : d <= e

\* Whether one of the three paths gave a submission date.
SubmissionDateResolved(key) == RecordOf(key).submission_date # NoDate

\* C10 as stated: the first response date of every Change Record is the
\* minimum lastModified of the current reply list, whichever path gave the
\* submission date, and also when no submission date was resolved.
C10_FirstResponseIsMinLastModified ==
    Returned =>
        \A key \in RecordKeys :
            RecordOf(key).first_response_date
                = MinLastModified(CurrentOf(key).replies_data)

\* C10 amended: the same whenever one of the three paths gave a submission
\* date; when none did, the first response date is absent.
C10_FirstResponseIsMinLastModifiedWhenResolved ==
    Returned =>
        \A key \in RecordKeys :
            RecordOf(key).first_response_date
                = IF SubmissionDateResolved(key)
                  THEN MinLastModified(CurrentOf(key).replies_data)
                  ELSE NoDate

\* The submission date came from the receipt dates; the first response date
\* is the earlier of two lastModified dates, which is not the first one.
C10_Witness ==
    /\ Returned
    /\ \E key \in RecordKeys :
          /\ CurrentOf(key).submission_date = NoDate
          /\ api_dates[1] = NoDate
          /\ SubmissionDateResolved(key)
          /\ Len(CurrentOf(key).replies_data) = 2
          /\ CurrentOf(key).replies_data[1].lastModified = 2
          /\ CurrentOf(key).replies_data[2].lastModified = 1
          /\ RecordOf(key).first_response_date = 1


AnswerKeys == {Key(all_new_answers[k]) : k \in 1..Len(all_new_answers)}

PositionsOf(key) == {k \in 1..Len(all_new_answers) : Key(all_new_answers[k]) = key}

Survivors(key) == {k \in 1..Len(unique_answers_list) : Key(unique_answers_list[k]) = key}

Deduplicated == pc \in {"send", "done"} /\ all_new_answers # <<>>

\* C5: when two records of the aggregated list share (id, type), exactly one
\* record of that key survives, the first seen, and its mention list is the
\* de-duplicated union of both lists, the first record's mentions first, for
\* all mention lists, an empty one included.
C5_MergedMentionsAreUnion ==
    Deduplicated =>
        \A key \in AnswerKeys :
            \A i, j \in PositionsOf(key) :
                (i < j /\ PositionsOf(key) = {i, j}) =>
                    /\ Cardinality(Survivors(key)) = 1
                    /\ \A k \in Survivors(key) :
                          unique_answers_list[k] =
                             [all_new_answers[i] EXCEPT !.mattermost_users =
                                 Dedup(all_new_answers[i].mattermost_users
                                          \o all_new_answers[j].mattermost_users)]

DeliveredKeys == [k \in 1..Len(deliveries) |-> <<deliveries[k].id, deliveries[k].type>>]

\* C8: one call of send_mattermost_notification for every distinct (id, type)
\* of the aggregated records, in the order the keys first appear; whatever
\* the earlier calls came to (sent, failed request, no webhook), the later
\* ones are made: while the loop runs every record before send_index has
\* had its call, and at the end every record has.
C8_OneDeliveryPerKey ==
    /\ pc = "send" =>
          /\ Len(deliveries) = send_index - 1
          /\ send_index <= Len(unique_answers_list)
    /\ (Deduplicated \/ pc = "done") =>
          /\ \A k \in 1..Len(deliveries) :
                DeliveredKeys[k] = Key(unique_answers_list[k])
          /\ \A i, j \in 1..Len(deliveries) :
                DeliveredKeys[i] = DeliveredKeys[j] => i = j
    /\ pc = "done" => Range(DeliveredKeys) = AnswerKeys

\* Two records of one key and one of another: two calls, the first failed
\* and the second was still made.
C8_Witness ==
    /\ pc = "done"
    /\ Len(all_new_answers) = 3
    /\ Cardinality(AnswerKeys) = 2
    /\ Len(deliveries) = 2
    /\ deliveries[1].outcome = "failed"
    /\ deliveries[2].outcome = "sent"


LastProcessed == processed[Len(processed)]

\* process_single_mp has just returned for an MP, after a fetch that found
\* interpellations, the comparison and the write of the data file.
MpProcessed ==
    /\ pc \in {"mp", "notify"}
    /\ processed # <<>>
    /\ LastProcessed.outcome = "saved"

\* C6: after an MP is processed with a successful fetch and comparison, the
\* MP's data file holds exactly the fetched list, nothing of the old list
\* kept, whether or not a Change Record was produced; if there was no file,
\* there is one now.
C6_SnapshotIsFetchedList ==
    MpProcessed =>
        /\ interpellations # <<>>
        /\ store[LastProcessed.id] = JsonFile(interpellations)
        /\ load_previous_results(store[LastProcessed.id]) = interpellations

\* No Change Record, and the stored list lost an interpellation the previous
\* list had.
C6_Witness ==
    /\ MpProcessed
    /\ Len(previous_results) = 2
    /\ Len(interpellations) = 1
    /\ new_answers = <<>>
    /\ store[LastProcessed.id].data = interpellations

TrackedIds ==
    SelectSeq([k \in 1..Len(config.mps) |-> config.mps[k].id], LAMBDA id : id # "")

ProcessedIds == [k \in 1..Len(processed) |-> processed[k].id]

Failed(entry) == entry.outcome # "saved"

ChangesOfTheSucceeded ==
    Flatten([k \in 1..Len(processed) |->
                IF Failed(processed[k]) THEN <<>> ELSE processed[k].changes])

\* C7: an MP whose processing fails (the fetch gives nothing, or a step
\* raises) adds no Change Record; the MPs after it are still processed; the
\* aggregated list is the concatenation of the changes of the MPs that did
\* not fail.
C7_FailureOfOneMpIsIsolated ==
    /\ pc # "main" => all_new_answers = ChangesOfTheSucceeded
    /\ (pc \in {"fetch", "compare", "save"}) =>
          ProcessedIds = SubSeq(TrackedIds, 1, Len(processed))
    /\ (pc \in {"notify", "send"} \/ (pc = "done" /\ mp_index > 0)) =>
          ProcessedIds = TrackedIds

\* The write for the first MP raised after changes were found, and the
\* second MP was processed and its changes are the aggregated list.
C7_Witness ==
    /\ pc = "notify"
    /\ Len(processed) = 2
    /\ processed[1].outcome = "write_failed"
    /\ processed[1].changes # <<>>
    /\ processed[2].outcome = "saved"
    /\ processed[2].changes # <<>>
    /\ all_new_answers = processed[2].changes

\* The earliest receiptDate of the replies that carry one, NoDate if none.
MinReceiptDate(replies_data) ==
    LET ds == {replies_data[k].receiptDate : k \in 1..Len(replies_data)} \ {NoDate}
    IN IF ds = {} THEN NoDate ELSE CHOOSE d \in ds : \A e \in ds : d <= e

\* C11: the submission date of a Change Record is the record's own
\* submission_date when it has one, and then no detail lookup is made;
\* otherwise the detail lookup is made, once, and its date is used when it
\* gives one; otherwise the date is the minimum receiptDate of the replies.
C11_SubmissionDatePriority ==
    Returned =>
        \A k \in 1..Len(interpellations) :
            Emitted(Key(interpellations[k])) =>
                LET item == interpellations[k]
                    rec == RecordOf(Key(item))
                IN IF item.submission_date # NoDate
                   THEN /\ rec.submission_date = item.submission_date
                        /\ Occurrences(date_calls, Key(item)) = 0
                   ELSE /\ Occurrences(date_calls, Key(item)) = 1
                        /\ rec.submission_date =
                              IF api_dates[k] # NoDate THEN api_dates[k]
                              ELSE MinReceiptDate(item.replies_data)

\* The record has no date, the lookup gives date 2, and the replies were
\* received at dates 2 and 1: the lookup's date is used, not the minimum.
C11_Witness ==
    /\ Returned
    /\ Len(new_answers) = 1
    /\ interpellations[1].submission_date = NoDate
    /\ date_calls = <<Key(interpellations[1])>>
    /\ api_dates[1] = 2
    /\ Len(interpellations[1].replies_data) = 2
    /\ interpellations[1].replies_data[1].receiptDate = 2
    /\ interpellations[1].replies_data[2].receiptDate = 1
    /\ new_answers[1].submission_date = 2

\* ---------------------------------------------------------------- C12
\* The objects of a list of the API, in the list's order.
Objects(data) == SelectSeq(data, LAMBDA raw : raw.kind = "dict")

\* The keys of the objects of the response.
SiblingKeys(response) ==
    {<<Objects(response.int_data)[k].num, "INT">> :
        k \in 1..Len(Objects(response.int_data))}
    \cup {<<Objects(response.zap_data)[k].num, "ZAP">> :
        k \in 1..Len(Objects(response.zap_data))}

RepliesOfSibling(response, key) ==
    LET data == IF key[2] = "INT" THEN Objects(response.int_data)
                ELSE Objects(response.zap_data)
    IN  data[CHOOSE k \in 1..Len(data) : data[k].num = key[1]].replies

HasMalformed(response) ==
    \/ Len(Objects(response.int_data)) < Len(response.int_data)
    \/ Len(Objects(response.zap_data)) < Len(response.zap_data)

FetchReturned == pc \in {"compare", "save"} \/ (pc = "mp" /\ processed # <<>>)

\* C12: when both list requests were answered, an element that cannot be
\* processed is the only one dropped: the fetched list holds exactly the
\* objects of the two lists, with their reply counts; once the comparison
\* has returned, every object whose reply count grew over a non-empty
\* previous snapshot has its change record; and the snapshot that is
\* written holds every object.
C12_MalformedItemDroppedAlone ==
    (FetchReturned /\ api_response.status = "ok") =>
        /\ {Key(interpellations[k]) : k \in 1..Len(interpellations)}
              = SiblingKeys(api_response)
        /\ \A k \in 1..Len(interpellations) :
              interpellations[k].replies
                 = RepliesOfSibling(api_response, Key(interpellations[k]))
        /\ (pc \in {"save", "mp"} /\ interpellations # <<>>
                /\ previous_results # <<>>) =>
              \A key \in SiblingKeys(api_response) :
                  (InPrevious(key)
                     /\ RepliesOfSibling(api_response, key) > PreviousCount(key))
                  => Emitted(key)
        /\ (pc = "mp" /\ LastProcessed.outcome = "saved") =>
              /\ store["p1"].file = "json"
              /\ {Key(store["p1"].data[k]) : k \in 1..Len(store["p1"].data)}
                    = SiblingKeys(api_response)

\* An element that is no object came before the interpellation 1, whose
\* reply count grew from 0 to 1: the sibling was reported and stored.
C12_Witness ==
    /\ pc = "mp"
    /\ processed # <<>>
    /\ LastProcessed.outcome = "saved"
    /\ api_response.status = "ok"
    /\ HasMalformed(api_response)
    /\ api_response.int_data = <<NotAnObject, RawItem("1", 1)>>
    /\ Len(previous_results) = 1
    /\ previous_results[1].replies = 0
    /\ Key(previous_results[1]) = <<"1", "INT">>
    /\ Len(new_answers) = 1
    /\ <<"1", "INT">> \in {Key(store["p1"].data[k]) : k \in 1..Len(store["p1"].data)}

\* ---------------------------------------------------------------- C13
\* C13: in a run whose configuration could not be loaded, no step fetches
\* for an MP, writes or changes a data file, or sends a notification: the
\* run goes from its start to its end and to the start of the next run only.
C13_NoConfigNoProcessing ==
    [][~config.loaded =>
          /\ store' = store
          /\ deliveries' = deliveries
          /\ api_response' = api_response
          /\ processed' = processed
          /\ pc' \in {"done", "main"}]_vars

\* The second run found no configuration and has ended; the snapshot the
\* first run wrote is still there.
C13_Witness ==
    /\ ~config.loaded
    /\ pc = "done"
    /\ run = 2
    /\ store["p1"].file = "json"
    /\ store["p1"].data # <<>>
    /\ processed = <<>>
    /\ deliveries = <<>>

\* ---------------------------------------------------------------- C14
PersonOps == {"fetch", "compare", "save"}

\* The entries of 'mps' that have an id: the tracked persons.
TrackedEntries == {k \in 1..Len(config.mps) : config.mps[k].id # ""}

PersonEvents == SelectSeq(events, LAMBDA e : e.op \in PersonOps)

CountOf(op) == Cardinality({i \in 1..Len(events) : events[i].op = op})

\* The entries a fetch was made for before the i-th event.
FetchedBefore(i) == {events[j].index : j \in {j \in 1..(i - 1) : events[j].op = "fetch"}}

\* C14: within a run the tracked persons are taken in the order of the
\* configuration, none twice and none left out on the way; a person's fetch,
\* comparison and write follow each other directly, and the next person's
\* fetch comes only after them (or after a fetch that found nothing); the
\* notifier is called at most once, after a fetch was made for every tracked
\* person, and no call for a person and no write follows the call of the
\* notifier or a delivery.
C14_RunOrdering ==
    /\ PersonEvents # <<>> => PersonEvents[1].op = "fetch"
    /\ \A i \in 1..Len(PersonEvents) :
          /\ PersonEvents[i].index \in TrackedEntries
          /\ PersonEvents[i].op = "fetch" =>
                {PersonEvents[j].index : j \in 1..i}
                   = {k \in TrackedEntries : k <= PersonEvents[i].index}
    /\ \A i \in 1..(Len(PersonEvents) - 1) :
          LET a == PersonEvents[i]
              b == PersonEvents[i + 1]
          IN  \/ a.index = b.index /\ a.op = "fetch" /\ b.op = "compare"
              \/ a.index = b.index /\ a.op = "compare" /\ b.op = "save"
              \/ a.index < b.index /\ a.op \in {"fetch", "save"} /\ b.op = "fetch"
    /\ CountOf("notify") <= 1
    /\ \A i \in 1..Len(events) :
          events[i].op \in {"notify", "send"} =>
              /\ \A j \in 1..Len(events) : events[j].op \in PersonOps => j < i
              /\ FetchedBefore(i) = TrackedEntries
    /\ \A i \in 1..Len(events) :
          events[i].op = "send" => \E j \in 1..(i - 1) : events[j].op = "notify"

\* Both tracked persons went through fetch, comparison and write, in the
\* order of the configuration, and then the notifier made a delivery.
C14_Witness ==
    /\ pc = "done"
    /\ Len(events) >= 8
    /\ SubSeq(events, 1, 7) =
          <<Event("fetch", 1), Event("compare", 1), Event("save", 1),
            Event("fetch", 3), Event("compare", 3), Event("save", 3),
            Event("notify", 4)>>
    /\ events[8].op = "send"
    /\ deliveries # <<>>

\* ---------------------------------------------------------------- C15
\* The comparison of the current MP has returned.
Compared == pc = "save" \/ (pc = "mp" /\ processed # <<>>
                                /\ LastProcessed.outcome # "fetch_failed")

\* The comparison returned nothing for an empty previous snapshot, and the
\* fetched list is what a successful write left in the data file.
FirstRunSuppressedAndStored ==
    /\ (Compared /\ previous_results = <<>>) => new_answers = <<>>
    /\ (pc = "mp" /\ processed # <<>> /\ LastProcessed.outcome = "saved"
           /\ previous_results = <<>>) =>
          store[LastProcessed.id] = JsonFile(interpellations)

\* The entries of the observer about the MP whose comparison has returned.
SuppressedHere ==
    {s \in suppressed : pc = "save" /\ s.mp = CurrentMp.id /\ Emitted(s.key)}

\* C15 as stated: with no previous snapshot (no file, an unreadable file,
\* an empty list) the comparison returns no change record and the fetched
\* list is stored; and an inquiry whose replies a first run stored
\* unreported is reported by a later run only with a greater reply count.
C15_SuppressedUntilCountGrows ==
    /\ FirstRunSuppressedAndStored
    /\ \A s \in SuppressedHere : RecordOf(s.key).current_replies > s.replies

\* C15, amended: ... is reported by a later run only with a greater reply
\* count, or when that run loaded a snapshot the inquiry was missing from
\* (it had dropped out of a fetched list that was stored in between).
C15_SuppressedUntilCountGrowsOrItemReturns ==
    /\ FirstRunSuppressedAndStored
    /\ \A s \in SuppressedHere :
          \/ RecordOf(s.key).current_replies > s.replies
          \/ ~InPrevious(s.key)

\* The first run stored interpellation 1 with its one reply and reported
\* nothing; the second run found the same and reported nothing either.
C15_Witness ==
    /\ run = 2
    /\ pc = "save"
    /\ CurrentMp.id = "p1"
    /\ [mp |-> "p1", key |-> <<"1", "INT">>, replies |-> 1] \in suppressed
    /\ InPrevious(<<"1", "INT">>)
    /\ PreviousCount(<<"1", "INT">>) = 1
    /\ \E k \in 1..Len(interpellations) :
          /\ Key(interpellations[k]) = <<"1", "INT">>
          /\ interpellations[k].replies = 1
    /\ new_answers = <<>>

\* ---------------------------------------------------------------- C16
\* The changes process_single_mp has returned in this run, as the observer
\* records them.
ReturnedChanges == RunRecord(processed, <<>>, <<>>).changes

\* No MP for whom the run before returned a change of an inquiry returns
\* a change of it again with the reply count unchanged, whatever came of
\* that run's delivery.
NotDetectedAgain ==
    \A c \in ReturnedChanges : c \notin previous_run.changes

\* Every fetch of this run and of the run before that held the inquiry
\* held it with this reply count.
SourceUnchanged(key, replies) ==
    \A f \in previous_run.fetched \cup RunRecord(processed, <<>>, <<>>).fetched :
        f.key = key => f.replies = replies

\* No delivery of this run is about an inquiry, unchanged at the source,
\* that a delivery of the run before was about, whatever its outcome.
NotDeliveredAgain ==
    \A d \in RunRecord(<<>>, unique_answers_list, deliveries).deliveries :
        \A p \in previous_run.deliveries :
            ~(p.key = d.key /\ p.replies = d.replies
                /\ SourceUnchanged(d.key, d.replies))

\* C16 as stated: a reply-count increase that was detected in a run, with
\* the snapshot written, is not detected again in the next run when the
\* source is unchanged, whether or not it was delivered; and so no
\* delivery, failed or for want of a webhook, is made again in the next
\* run: the increase is not notified then.
C16_NeverReportedAgain ==
    /\ NotDetectedAgain
    /\ NotDeliveredAgain

\* C16, amended: the increase is not detected again for the same person;
\* no delivery is carried over: a delivery about it is made again in the
\* next run only on a change returned in that run, for another tracked
\* person than those for whom the run before returned it.
C16_NeverReportedAgainForThePerson ==
    /\ NotDetectedAgain
    /\ \A d \in RunRecord(<<>>, unique_answers_list, deliveries).deliveries :
          \A p \in previous_run.deliveries :
              (p.key = d.key /\ p.replies = d.replies) =>
                  \E c \in ReturnedChanges :
                      /\ c.key = d.key
                      /\ c.replies = d.replies
                      /\ \A q \in previous_run.changes :
                            (q.key = d.key /\ q.replies = d.replies)
                               => q.mp # c.mp

\* The run before returned the first reply to written question 1 for "p1"
\* and its delivery failed (or there was no webhook); this run found the
\* same for "p1", returned no change and has delivered nothing.
C16_Witness ==
    /\ pc = "done"
    /\ [mp |-> "p1", key |-> <<"1", "ZAP">>, replies |-> 1]
           \in previous_run.changes
    /\ \E p \in previous_run.deliveries :
          p.key = <<"1", "ZAP">> /\ p.outcome \in {"failed", "no_webhook"}
    /\ \E i \in 1..Len(processed) :
          /\ processed[i].id = "p1"
          /\ processed[i].outcome = "saved"
          /\ processed[i].changes = <<>>
    /\ deliveries = <<>>

\* ---------------------------------------------------------------- C17
\* One of the two list requests failed, or both lists came to nothing.
FetchFailedOrEmpty ==
    \/ api_response.status \in {"int_failed", "zap_failed"}
    \/ /\ api_response.status = "ok"
       /\ Objects(api_response.int_data) = <<>>
       /\ Objects(api_response.zap_data) = <<>>

\* C17: when a list request of an MP failed, or the fetched list is empty,
\* process_single_mp returns no change and writes nothing: the data file
\* still holds the snapshot that was loaded, not an empty or a partial
\* list; and every comparison is made against what the data file holds.
C17_FailedFetchKeepsSnapshot ==
    /\ (pc = "mp" /\ processed # <<>> /\ FetchFailedOrEmpty) =>
          /\ LastProcessed.outcome = "fetch_failed"
          /\ LastProcessed.changes = <<>>
          /\ new_answers = <<>>
          /\ load_previous_results(store[LastProcessed.id]) = previous_results
    /\ pc \in {"fetch", "compare", "save"} =>
          previous_results = load_previous_results(store[CurrentMp.id])
    /\ (pc \in {"compare", "save"}) => ~FetchFailedOrEmpty

\* In the second run the request for the written questions of "p1" failed
\* after the interpellations had come: the snapshot of the first run is
\* still in the data file.
C17_Witness ==
    /\ run = 2
    /\ pc = "mp"
    /\ processed # <<>>
    /\ LastProcessed.id = "p1"
    /\ api_response.status = "zap_failed"
    /\ api_response.int_data # <<>>
    /\ store["p1"].file = "json"
    /\ store["p1"].data # <<>>
    /\ store["p1"].data = previous_results
    /\ LastProcessed.changes = <<>>

====
